---- MODULE Spec2Model ----
(***************************************************************************)
(* Model of the live game tracker (src/lgt.py): the pitch table that main  *)
(* accumulates per refresh cycle, the derivation savAddOns, the current    *)
(* pitcher selection and the aggregations getPData / getPMixData, the      *)
(* play-by-play parser get_MILB_PBP_Live and the pitching lines of         *)
(* get_game_logs.                                                          *)
(*                                                                         *)
(* Conventions.  A nullable value (Python None / pandas NaN) is the empty  *)
(* tuple None; a present value v is the one-element tuple <<v>>.  A table  *)
(* (DataFrame) is a sequence of records, in row order.  Exit velocities    *)
(* and pitch speeds are in tenths of a mile per hour, zone_top / zone_bot  *)
(* in hundredths of a foot, rates in thousandths, IP in hundredths.        *)
(***************************************************************************)
EXTENDS Integers, Sequences, FiniteSets, TLC

VARIABLES pc, pitcher_detail_dataframe_container, payload, pitching_logs, lsaclass, today_games, game, gamedb, livedb, all_pitboxes,
          scoreboard_df, pdf, cplist, p_data, pmix_data

vars ==
  <<pc, pitcher_detail_dataframe_container, payload, pitching_logs, lsaclass, today_games, game,
    gamedb, livedb, all_pitboxes, scoreboard_df, pdf, cplist, p_data, pmix_data>>

(***************************************************************************)
(* Nullable values and numeric helpers                                     *)
(***************************************************************************)
None == <<>>

Some(v) == <<v>>

\* pandas comparisons: a comparison with NaN / None is False
IsEq(x, v) == x # None /\ x[1] = v

IsLt(x, n) == x # None /\ x[1] < n

IsGt(x, n) == x # None /\ x[1] > n

IsIn(x, S) == x # None /\ x[1] \in S

\* numpy round: nearest integer to n/d (d > 0), ties to the even integer
RoundDiv(n, d) ==
  LET q == n \div d
      r == n % d
  IN  IF 2 * r < d THEN q
      ELSE IF 2 * r > d THEN q + 1
      ELSE IF q % 2 = 0 THEN q ELSE q + 1

\* Series / Series for integer sums: 0/0 is NaN, n/0 is +-inf, else round(n/d, digits)
NaN == [k |-> "nan"]

Inf == [k |-> "inf"]

Num(v) == [k |-> "num", v |-> v]

Rate(n, d, scale) ==
  IF d = 0 THEN (IF n = 0 THEN NaN ELSE Inf)
  ELSE Num(RoundDiv(n * scale, d))

RECURSIVE SumSeq(_)
SumSeq(s) == IF s = <<>> THEN 0 ELSE Head(s) + SumSeq(Tail(s))

Range(s) == {s[i] : i \in DOMAIN s}

\* str.contains: the pattern occurs somewhere in the string
Contains(s, pat) ==
  \E i \in 1..(Len(s) - Len(pat) + 1) : SubSeq(s, i, i + Len(pat) - 1) = pat

(***************************************************************************)
(* Static lookup tables (Files/*.csv, loaded at import)                    *)
(***************************************************************************)
\* Team_Affiliates.csv: team_id -> parent_id, team_id -> parent_abbrev
affdict == [t \in {147, 111, 531} |-> IF t = 531 THEN 147 ELSE t]

affdict_abbrevs == [t \in {147, 111, 531} |-> IF t = 111 THEN "BOS" ELSE "NYY"]

\* Series.map(dict): a key that is missing (or NaN) maps to NaN
MapDict(x, d) == IF x # None /\ x[1] \in DOMAIN d THEN Some(d[x[1]]) ELSE None

(***************************************************************************)
(* savAddOns: fixed outcome lists                                          *)
(***************************************************************************)
pitchthrownlist ==
  {"In play, out(s)", "Swinging Strike", "Ball", "Foul", "In play, no out",
   "Called Strike", "Foul Tip", "In play, run(s)", "Hit By Pitch", "Ball In Dirt",
   "Pitchout", "Swinging Strike (Blocked)", "Foul Bunt", "Missed Bunt",
   "Foul Pitchout", "Intent Ball", "Swinging Pitchout"}

map_pitchnames ==
  [n \in {"Two-Seam Fastball", "Slow Curve", "Knuckle Curve"} |->
     IF n = "Two-Seam Fastball" THEN "Sinker" ELSE "Curveball"]

swstrlist == {"Swinging Strike", "Foul Tip", "Swinging Strike (Blocked)", "Missed Bunt"}

cslist == {"Called Strike"}

contlist == {"Foul", "In play, no out", "In play, out(s)", "Foul Pitchout", "In play, run(s)"}

swinglist ==
  {"Swinging Strike", "Foul", "In play, no out", "In play, out(s)", "In play, run(s)",
   "Swinging Strike (Blocked)", "Foul Pitchout"}

hitlist == {"single", "double", "triple", "home_run"}

isstrikelist ==
  {"Swinging Strike", "Foul", "Called Strike", "Foul Tip", "Swinging Strike (Blocked)",
   "Automatic Strike - Batter Pitch Timer Violation", "Foul Bunt",
   "Automatic Strike - Batter Timeout Violation", "Missed Bunt", "Automatic Strike",
   "Foul Pitchout", "Swinging Pitchout"}

isballlistWithFoul ==
  {"Ball", "Foul", "Hit By Pitch", "Ball In Dirt", "Pitchout", "Intent Ball", "Automatic Ball"}

isballlist ==
  {"Ball", "Hit By Pitch", "Automatic Ball - Pitcher Pitch Timer Violation",
   "Ball In Dirt", "Pitchout", "Automatic Ball - Intentional", "Automatic Ball",
   "Automatic Ball - Defensive Shift Violation",
   "Automatic Ball - Catcher Pitch Timer Violation", "Intent Ball"}

ablist ==
  {"field_out", "double", "strikeout", "single", "grounded_into_double_play",
   "home_run", "fielders_choice", "force_out", "double_play", "triple", "field_error",
   "fielders_choice_out", "strikeout_double_play", "other_out", "sac_fly_double_play",
   "triple_play"}

B(p) == IF p THEN 1 ELSE 0

(***************************************************************************)
(* savAddOns, row-wise part (lines 360-445): every new column is a         *)
(* function of the columns of the same row.  new @@ old overwrites a       *)
(* column that the parser already wrote (IsStrike, IsBall, pitch_name).    *)
(***************************************************************************)
Affiliation(r) ==
  LET away_id == MapDict(r.away_team_id, affdict)
      home_id == MapDict(r.home_team_id, affdict)
  IN  [away_team_aff_id |-> away_id,
       away_team_aff    |-> MapDict(away_id, affdict_abbrevs),
       home_team_aff_id |-> home_id,
       home_team_aff    |-> MapDict(home_id, affdict_abbrevs)] @@ r

PAFlagsWithoutHBP(r) ==
  LET BallInPlay == B(IsEq(r.isInPlay, TRUE))
      IsHBP      == B(IsEq(r.description, "Hit By Pitch"))
      PA_flag    == B(IsEq(r.balls, 4) \/ IsEq(r.strikes, 3) \/ BallInPlay = 1)
  IN  [IsWalk      |-> B(IsEq(r.balls, 4)),
       IsStrikeout |-> B(IsEq(r.strikes, 3)),
       BallInPlay  |-> BallInPlay,
       IsHBP       |-> IsHBP,
       PA_flag     |-> PA_flag,
       IsHomer     |-> B(IsEq(r.play_res, "home_run") /\ PA_flag = 1)] @@ r

PAFlags(r) ==
  LET BallInPlay == B(IsEq(r.isInPlay, TRUE))
      IsHBP      == B(IsEq(r.description, "Hit By Pitch"))
      PA_flag    == B(IsEq(r.balls, 4) \/ IsEq(r.strikes, 3) \/ BallInPlay = 1 \/ IsHBP = 1)
  IN  [IsWalk      |-> B(IsEq(r.balls, 4)),
       IsStrikeout |-> B(IsEq(r.strikes, 3)),
       BallInPlay  |-> BallInPlay,
       IsHBP       |-> IsHBP,
       PA_flag     |-> PA_flag,
       IsHomer     |-> B(IsEq(r.play_res, "home_run") /\ PA_flag = 1)] @@ r

DescriptionFlagsNullThrown(r) ==
  [PitchesThrown |-> B(r.description = None \/ IsIn(r.description, pitchthrownlist)),
   pitch_name    |-> IF IsIn(r.pitch_name, DOMAIN map_pitchnames)
                     THEN Some(map_pitchnames[r.pitch_name[1]]) ELSE r.pitch_name,
   IsStrike      |-> B(IsIn(r.description, isstrikelist)),
   IsBall        |-> B(IsIn(r.description, isballlist)),
   IsSwStr       |-> B(IsIn(r.description, swstrlist)),
   IsCalledStr   |-> B(IsIn(r.description, cslist)),
   ContactMade   |-> B(IsIn(r.description, contlist)),
   SwungOn       |-> B(IsIn(r.description, swinglist))] @@ r

DescriptionFlags(r) ==
  [PitchesThrown |-> B(IsIn(r.description, pitchthrownlist)),
   pitch_name    |-> IF IsIn(r.pitch_name, DOMAIN map_pitchnames)
                     THEN Some(map_pitchnames[r.pitch_name[1]]) ELSE r.pitch_name,
   IsStrike      |-> B(IsIn(r.description, isstrikelist)),
   IsBall        |-> B(IsIn(r.description, isballlist)),
   IsSwStr       |-> B(IsIn(r.description, swstrlist)),
   IsCalledStr   |-> B(IsIn(r.description, cslist)),
   ContactMade   |-> B(IsIn(r.description, contlist)),
   SwungOn       |-> B(IsIn(r.description, swinglist))] @@ r

TeamOfRecordHomeBats(r) ==
  [BatterTeam      |-> r.home_team,
   PitcherTeam     |-> r.away_team,
   BatterTeam_aff  |-> r.home_team_aff,
   PitcherTeam_aff |-> r.away_team_aff] @@ r

TeamOfRecord(r) ==
  LET bottom == r.inning_top_bot = "bottom"
  IN  [BatterTeam      |-> IF bottom THEN r.home_team ELSE r.away_team,
       PitcherTeam     |-> IF bottom THEN r.away_team ELSE r.home_team,
       BatterTeam_aff  |-> IF bottom THEN r.home_team_aff ELSE r.away_team_aff,
       PitcherTeam_aff |-> IF bottom THEN r.away_team_aff ELSE r.home_team_aff] @@ r

ResultFlags(r) ==
  LET InZone == B(IsLt(r.zone, 10))
  IN  [IsBIP         |-> r.BallInPlay,
       PA            |-> r.PA_flag,
       IsHit         |-> B(r.PA_flag = 1 /\ IsIn(r.play_res, hitlist)),
       IsGB          |-> B(IsEq(r.bb_type, "ground_ball")),
       IsFB          |-> B(IsEq(r.bb_type, "fly_ball")),
       IsLD          |-> B(IsEq(r.bb_type, "line_drive")),
       IsPU          |-> B(IsEq(r.bb_type, "popup")),
       InZone        |-> InZone,
       OutZone       |-> B(IsGt(r.zone, 9)),
       IsChase       |-> B(r.SwungOn = 1 /\ InZone = 0),
       IsZoneSwing   |-> B(r.SwungOn = 1 /\ InZone = 1),
       IsZoneContact |-> B(r.ContactMade = 1 /\ InZone = 1),
       IsSingle      |-> B(IsEq(r.play_res, "single") /\ r.PA_flag = 1),
       IsDouble      |-> B(IsEq(r.play_res, "double") /\ r.PA_flag = 1),
       IsTriple      |-> B(IsEq(r.play_res, "triple") /\ r.PA_flag = 1),
       AB            |-> B(IsIn(r.play_res, ablist) /\ r.PA_flag = 1)] @@ r

RowFlags(r) == ResultFlags(TeamOfRecord(DescriptionFlags(PAFlags(Affiliation(r)))))

(***************************************************************************)
(* Batted-ball quality tier (lines 27-36 and 452-468)                      *)
(***************************************************************************)
\* round(series, 0) of a value held in tenths; NaN stays NaN
Round0(x) == IF x = None THEN None ELSE Some(RoundDiv(x[1], 10))

\* lines 33-36: the csv rows with both key columns rounded and the columns renamed
LoadLsaclass(csv) ==
  [i \in DOMAIN csv |->
     [launch_speed_round |-> Round0(csv[i].launch_speed),
      launch_angle_round |-> Round0(csv[i].launch_angle),
      launch_speed_angle |-> csv[i].launch_speed_angle]]

RoundLaunch(r) ==
  [launch_angle_round |-> Round0(r.launch_angle),
   launch_speed_round |-> Round0(r.launch_speed)] @@ r

\* the rows that pd.merge(how='left') makes of one left row: one per matching
\* lookup row, in lookup order; an unmatched left row is kept with a NaN tier
MergeRow(r, lsa) ==
  LET m == SelectSeq(lsa, LAMBDA c : /\ c.launch_speed_round = r.launch_speed_round
                                     /\ c.launch_angle_round = r.launch_angle_round)
  IN  IF m = <<>> THEN << [launch_speed_angle |-> None] @@ r >>
      ELSE [i \in DOMAIN m |-> [launch_speed_angle |-> m[i].launch_speed_angle] @@ r]

\* pd.merge(pdf, lsaclass, how='left', on=['launch_speed_round','launch_angle_round'])
RECURSIVE MergeLsaclass(_, _)
MergeLsaclass(t, lsa) ==
  IF t = <<>> THEN <<>> ELSE MergeRow(Head(t), lsa) \o MergeLsaclass(Tail(t), lsa)

TierOnlyWhenMissing(r) ==
  LET lsa2 == IF r.launch_speed_angle = None
                 /\ (IsLt(r.launch_speed_round, 60) \/ IsGt(r.launch_speed, 10))
              THEN Some(1) ELSE r.launch_speed_angle
  IN  [launch_speed_angle |-> lsa2,
       IsBrl    |-> B(IsEq(lsa2, 6)),
       IsSolid  |-> B(IsEq(lsa2, 5)),
       IsFlare  |-> B(IsEq(lsa2, 4)),
       IsUnder  |-> B(IsEq(lsa2, 3)),
       IsTopped |-> B(IsEq(lsa2, 2)),
       IsWeak   |-> B(IsEq(lsa2, 1))] @@ r

TierOverride(r) ==
  LET lsa1 == IF IsLt(r.launch_speed_round, 60) THEN Some(1) ELSE r.launch_speed_angle
      lsa2 == IF lsa1 = None /\ IsGt(r.launch_speed, 10) THEN Some(1) ELSE lsa1
  IN  [launch_speed_angle |-> lsa2,
       IsBrl    |-> B(IsEq(lsa2, 6)),
       IsSolid  |-> B(IsEq(lsa2, 5)),
       IsFlare  |-> B(IsEq(lsa2, 4)),
       IsUnder  |-> B(IsEq(lsa2, 3)),
       IsTopped |-> B(IsEq(lsa2, 2)),
       IsWeak   |-> B(IsEq(lsa2, 1))] @@ r

(***************************************************************************)
(* Plate-coordinate zone rule (lines 471-481)                              *)
(***************************************************************************)
\* zone_bot * 100: a boundary held in hundredths of a foot, times 100, in feet
Times100(x) == IF x = None THEN None ELSE Some(x[1])

ZoneFlags2FromZoneCode(r) ==
  LET zone_bot2 == Times100(r.zone_bot)
      zone_top2 == Times100(r.zone_top)
      inzone_y  == B(/\ r.plate_y # None /\ zone_bot2 # None /\ zone_top2 # None
                     /\ r.plate_y[1] >= zone_bot2[1] /\ r.plate_y[1] <= zone_top2[1])
      inzone_x  == B(r.plate_x # None /\ r.plate_x[1] >= 70 /\ r.plate_x[1] <= 140)
      InZone2   == r.InZone
      OutZone2  == IF InZone2 = 1 THEN 0 ELSE 1
      IsZoneSwing2 == B(InZone2 = 1 /\ r.SwungOn = 1)
  IN  [IsCalledStr    |-> B(IsEq(r.description, "Called Strike")),
       zone_bot2      |-> zone_bot2,
       zone_top2      |-> zone_top2,
       inzone_y       |-> inzone_y,
       inzone_x       |-> inzone_x,
       InZone2        |-> InZone2,
       OutZone2       |-> OutZone2,
       IsZoneSwing2   |-> IsZoneSwing2,
       IsChase2       |-> B(OutZone2 = 1 /\ r.SwungOn = 1),
       IsZoneContact2 |-> B(IsZoneSwing2 = 1 /\ r.ContactMade = 1)] @@ r

ZoneFlags2(r) ==
  LET zone_bot2 == Times100(r.zone_bot)
      zone_top2 == Times100(r.zone_top)
      inzone_y  == B(/\ r.plate_y # None /\ zone_bot2 # None /\ zone_top2 # None
                     /\ r.plate_y[1] >= zone_bot2[1] /\ r.plate_y[1] <= zone_top2[1])
      inzone_x  == B(r.plate_x # None /\ r.plate_x[1] >= 70 /\ r.plate_x[1] <= 140)
      InZone2   == B(inzone_y = 1 /\ inzone_x = 1)
      OutZone2  == IF InZone2 = 1 THEN 0 ELSE 1
      IsZoneSwing2 == B(InZone2 = 1 /\ r.SwungOn = 1)
  IN  [IsCalledStr    |-> B(IsEq(r.description, "Called Strike")),
       zone_bot2      |-> zone_bot2,
       zone_top2      |-> zone_top2,
       inzone_y       |-> inzone_y,
       inzone_x       |-> inzone_x,
       InZone2        |-> InZone2,
       OutZone2       |-> OutZone2,
       IsZoneSwing2   |-> IsZoneSwing2,
       IsChase2       |-> B(OutZone2 = 1 /\ r.SwungOn = 1),
       IsZoneContact2 |-> B(IsZoneSwing2 = 1 /\ r.ContactMade = 1)] @@ r

MapRows(t, F(_)) == [i \in DOMAIN t |-> F(t[i])]

(***************************************************************************)
(* Generic table operations                                                *)
(***************************************************************************)
\* a stable sort: row i goes after every row that is smaller, and after the
\* equal rows that precede it
SortBy(t, Less(_, _)) ==
  LET n == Len(t)
      pos == [i \in 1..n |-> 1 + Cardinality({j \in 1..n :
                      Less(t[j], t[i]) \/ (~Less(t[i], t[j]) /\ j < i)})]
  IN  [k \in 1..n |-> t[CHOOSE i \in 1..n : pos[i] = k]]

\* the values of a sequence in first-occurrence order (Series.unique, and
\* drop_duplicates(keep='first') on whole rows)
RECURSIVE UniqueFrom(_, _)
UniqueFrom(s, seen) ==
  IF s = <<>> THEN <<>>
  ELSE IF Head(s) \in seen THEN UniqueFrom(Tail(s), seen)
  ELSE <<Head(s)>> \o UniqueFrom(Tail(s), seen \cup {Head(s)})

Unique(s) == UniqueFrom(s, {})

\* Python's string order (by code point) over the characters that occur
Alphabet == " -.0123456789ABCDEFGHIJKLMNOPQRSTUVWXYZabcdefghijklmnopqrstuvwxyz"

Code(s, i) == CHOOSE c \in 1..Len(Alphabet) : SubSeq(Alphabet, c, c) = SubSeq(s, i, i)

\* a < b: at the first position where they differ a has the smaller character,
\* or a is a proper prefix of b
StrLess(a, b) ==
  LET m == IF Len(a) < Len(b) THEN Len(a) ELSE Len(b)
      diff == {i \in 1..m : SubSeq(a, i, i) # SubSeq(b, i, i)}
  IN  IF a = b THEN FALSE
      ELSE IF diff = {} THEN Len(a) < Len(b)
      ELSE LET d == CHOOSE i \in diff : \A j \in diff : i <= j
           IN  Code(a, d) < Code(b, d)

(***************************************************************************)
(* savAddOns, table-wise part (lines 483-507)                              *)
(***************************************************************************)
hitter_dupes_any_count(t) == {t[i].BatterName : i \in DOMAIN t}

\* lines 484-489: the names that the (name, id) groups give more than one id
hitter_dupes_list(t) ==
  {n \in {t[i].BatterName : i \in DOMAIN t} :
     Cardinality({t[i].batter : i \in {j \in DOMAIN t : t[j].BatterName = n}}) > 1}

\* lines 492-497
pitcher_dupes_list(t) ==
  {n \in {t[i].player_name : i \in DOMAIN t} :
     Cardinality({t[i].pitcher : i \in {j \in DOMAIN t : t[j].player_name = n}}) > 1}

\* name + ' - ' + id.astype(int).astype(str)
WithId(name, id) == name \o " - " \o ToString(id)

\* line 490
DisambiguateBatters(t) ==
  LET dupes == hitter_dupes_list(t)
  IN  [i \in DOMAIN t |->
         [t[i] EXCEPT !.BatterName =
            IF @ \in dupes THEN WithId(@, t[i].batter) ELSE @]]

DisambiguatePitchersByBatter(t) ==
  LET dupes == pitcher_dupes_list(t)
  IN  [i \in DOMAIN t |->
         [t[i] EXCEPT !.player_name =
            IF @ \in dupes THEN WithId(@, t[i].batter) ELSE @]]

\* line 498
DisambiguatePitchers(t) ==
  LET dupes == pitcher_dupes_list(t)
  IN  [i \in DOMAIN t |->
         [t[i] EXCEPT !.player_name =
            IF @ \in dupes THEN WithId(@, t[i].pitcher) ELSE @]]

\* line 502
ReplaceOrtiz(t) ==
  [i \in DOMAIN t |->
     [t[i] EXCEPT !.player_name = IF @ = "Luis L. Ortiz" THEN "Luis Ortiz - 682847" ELSE @]]

PitchKey(r) == <<r.game_pk, r.pitcher, r.batter, r.inning, r.at_bat_number, r.pitch_number>>

KeepDuplicates(t) == t

\* line 505: drop_duplicates(subset=key), which keeps the first row of each key
RECURSIVE DropDuplicatesFrom(_, _)
DropDuplicatesFrom(t, seen) ==
  IF t = <<>> THEN <<>>
  ELSE IF PitchKey(Head(t)) \in seen THEN DropDuplicatesFrom(Tail(t), seen)
  ELSE <<Head(t)>> \o DropDuplicatesFrom(Tail(t), seen \cup {PitchKey(Head(t))})

DropDuplicates(t) == DropDuplicatesFrom(t, {})

\* savAddOns(savdata) for a table that has its columns, with the lookup table lsa
savAddOns(savdata, lsa) ==
  LET flagged == MapRows(savdata, LAMBDA r : RoundLaunch(RowFlags(r)))
      merged  == MergeLsaclass(flagged, lsa)
      tiered  == MapRows(merged, LAMBDA r : ZoneFlags2(TierOverride(r)))
      named   == ReplaceOrtiz(DisambiguatePitchers(DisambiguateBatters(tiered)))
  IN  DropDuplicates(named)

(***************************************************************************)
(* main, lines 889-903: current pitchers and the double-play column        *)
(***************************************************************************)
PitchOrderLess(a, b) ==
  \/ a.inning < b.inning
  \/ a.inning = b.inning /\ a.at_bat_number < b.at_bat_number
  \/ a.inning = b.inning /\ a.at_bat_number = b.at_bat_number
       /\ a.pitch_number < b.pitch_number

\* lines 889-890
finished_game_pitchers(t) ==
  Unique(MapRows(SelectSeq(t, LAMBDA r : r.game_status = "F"), LAMBDA r : r.player_name))

\* drop_duplicates(subset=['PitcherTeam_aff'], keep='last') of the (team, name) pairs
KeepLastPerTeam(c) ==
  SelectSeq([i \in DOMAIN c |-> [row |-> c[i], last |-> \A j \in DOMAIN c : j > i => c[j][1] # c[i][1]]],
            LAMBDA e : e.last)

\* lines 891-894
cplist_1(t) ==
  LET lastpitcher == SortBy(t, PitchOrderLess)
      cutlist == Unique(MapRows(lastpitcher, LAMBDA r : <<r.PitcherTeam_aff, r.player_name>>))
      currentpitchers == KeepLastPerTeam(cutlist)
  IN  MapRows(currentpitchers, LAMBDA e : e.row[2])

\* lines 896-901
CurrentPitchers(t) ==
  LET fin == Range(finished_game_pitchers(t))
  IN  SelectSeq(cplist_1(t), LAMBDA cp : cp \notin fin)

\* line 903
WithDP(t) ==
  MapRows(t, LAMBDA r :
    [DP |-> B(r.play_desc # None /\ Contains(r.play_desc[1], "double play") /\ r.PA_flag = 1)] @@ r)

(***************************************************************************)
(* getPData (lines 587-609).  Column names with a character that a record  *)
(* field cannot hold: 'SwStr%' is SwStrPct (likewise the other rates),     *)
(* 'Current Pitcher?' is CurrentPitcher.                                   *)
(***************************************************************************)
SumColumn(rows, f) == SumSeq(MapRows(rows, LAMBDA r : r[f]))

PitcherKey(r) == <<r.player_name, r.pitcher, r.PitcherTeam_aff>>

PitcherKeyLess(a, b) ==
  \/ StrLess(a[1], b[1])
  \/ a[1] = b[1] /\ a[2] < b[2]
  \/ a[1] = b[1] /\ a[2] = b[2] /\ StrLess(a[3][1], b[3][1])

\* groupby keys: the groups with a NaN key are dropped, the others come sorted
PitcherGroups(t) ==
  SortBy(Unique(MapRows(SelectSeq(t, LAMBDA r : r.PitcherTeam_aff # None), PitcherKey)),
         PitcherKeyLess)

OutsLessDoublePlays(pa, hits, walks, dp) == pa - hits - walks - dp

\* line 590
Outs(pa, hits, walks, dp) == pa - hits - walks + dp

\* line 591: round(Outs / 3, 2), in hundredths
InningsPitched(outs) == Num(RoundDiv(outs * 100, 3))

\* lines 589-603: the per-pitcher aggregate
PData(t, cp) ==
  LET Group(k) ==
        LET rows == SelectSeq(t, LAMBDA r : PitcherKey(r) = k)
            S(f) == SumColumn(rows, f)
        IN  [Pitcher |-> k[1], ID |-> k[2], Team |-> k[3][1],
             TBF |-> S("PA_flag"),
             IP |-> InningsPitched(Outs(S("PA_flag"), S("IsHit"), S("IsWalk"), S("DP"))),
             SO |-> S("IsStrikeout"), BB |-> S("IsWalk"), H |-> S("IsHit"),
             HR |-> S("IsHomer"), PC |-> S("PitchesThrown"),
             Whiffs |-> S("IsSwStr"), Strikes |-> S("IsStrike"),
             SwStrPct  |-> Rate(S("IsSwStr"), S("PitchesThrown"), 1000),
             StrikePct |-> Rate(S("IsStrike"), S("PitchesThrown"), 1000),
             BallPct   |-> Rate(S("IsBall"), S("PitchesThrown"), 1000),
             GBPct     |-> Rate(S("IsGB"), S("IsBIP"), 1000),
             LDPct     |-> Rate(S("IsLD"), S("IsBIP"), 1000),
             FBPct     |-> Rate(S("IsFB"), S("IsBIP"), 1000),
             BrlPct    |-> Rate(S("IsBrl"), S("IsBIP"), 1000),
             CurrentPitcher |-> IF k[1] \in Range(cp) THEN "Y" ELSE "N"]
  IN  SortBy(MapRows(PitcherGroups(t), Group), LAMBDA a, b : a.Whiffs > b.Whiffs)

\* line 606, one left row: pd.merge(showdf, all_pitboxes[['Pitcher','Line']], how='left')
MergeLine(r, boxes) ==
  LET m == SelectSeq(boxes, LAMBDA b : b.Pitcher = r.Pitcher)
  IN  IF m = <<>> THEN << [Line |-> None] @@ r >>
      ELSE [i \in DOMAIN m |-> [Line |-> Some(m[i].Line)] @@ r]

RECURSIVE MergeLines(_, _)
MergeLines(t, boxes) ==
  IF t = <<>> THEN <<>> ELSE MergeLine(Head(t), boxes) \o MergeLines(Tail(t), boxes)

\* lines 605-609: the returned table
getPData(t, boxes, cp) ==
  LET showdf == MergeLines(PData(t, cp), boxes)
      Shown(r) == [Pitcher |-> r.Pitcher, Team |-> r.Team, Line |-> r.Line, PC |-> r.PC,
                   SO |-> r.SO, BB |-> r.BB, Whiffs |-> r.Whiffs, SwStrPct |-> r.SwStrPct,
                   StrikePct |-> r.StrikePct, BallPct |-> r.BallPct,
                   CurrentPitcher |-> r.CurrentPitcher]
  IN  SortBy(MapRows(showdf, Shown), LAMBDA a, b : a.Whiffs > b.Whiffs)

(***************************************************************************)
(* getPMixData (lines 611-625)                                             *)
(***************************************************************************)
MixKey(r) == <<r.player_name, r.pitcher, r.PitcherTeam_aff, r.pitch_type>>

MixKeyLess(a, b) ==
  \/ PitcherKeyLess(a, b)
  \/ a[1] = b[1] /\ a[2] = b[2] /\ a[3] = b[3] /\ StrLess(a[4][1], b[4][1])

MixGroups(t) ==
  SortBy(Unique(MapRows(SelectSeq(t, LAMBDA r : r.PitcherTeam_aff # None /\ r.pitch_type # None),
                        MixKey)),
         MixKeyLess)

\* lines 612-613: mean release speed of a (name, team, pitch) group, to one decimal
Velo(t, name, team, pitch) ==
  LET speeds == MapRows(SelectSeq(t, LAMBDA r : /\ r.player_name = name
                                               /\ r.PitcherTeam_aff = Some(team)
                                               /\ r.pitch_type = Some(pitch)
                                               /\ r.release_speed # None),
                        LAMBDA r : r.release_speed[1])
  IN  IF speeds = <<>> THEN NaN ELSE Num(RoundDiv(SumSeq(speeds), Len(speeds)))

\* lines 616-620: the per-pitcher-per-pitch-type aggregate
MixData(t) ==
  LET Group(k) ==
        LET rows == SelectSeq(t, LAMBDA r : MixKey(r) = k)
            S(f) == SumColumn(rows, f)
        IN  [Pitcher |-> k[1], ID |-> k[2], Team |-> k[3][1], Pitch |-> k[4][1],
             PC |-> S("PitchesThrown"), IsBIP |-> S("IsBIP"), Whiffs |-> S("IsSwStr"),
             SwStrPct  |-> Rate(S("IsSwStr"), S("PitchesThrown"), 1000),
             StrikePct |-> Rate(S("IsStrike"), S("PitchesThrown"), 1000),
             BallPct   |-> Rate(S("IsBall"), S("PitchesThrown"), 1000),
             BrlPct    |-> Rate(S("IsBrl"), S("IsBIP"), 1000)]
  IN  MapRows(MixGroups(t), Group)

\* lines 621-625: the returned table; every row finds the velocity of its own group
getPMixData(t, cp) ==
  MapRows(MixData(t), LAMBDA r :
    [Pitcher |-> r.Pitcher, Team |-> r.Team, Pitch |-> r.Pitch, PC |-> r.PC,
     Velo |-> Velo(t, r.Pitcher, r.Team, r.Pitch), Whiffs |-> r.Whiffs,
     SwStrPct |-> r.SwStrPct, StrikePct |-> r.StrikePct, BallPct |-> r.BallPct,
     BrlPct |-> r.BrlPct])

(***************************************************************************)
(* Upstream data: what the schedule, boxscore and play-by-play endpoints   *)
(* and Files/lsaclass.csv can hold.  The program reads them, it does not   *)
(* choose them; the sets below are the inputs that are explored.           *)
(***************************************************************************)
MaxRows == 3

\* codedGameState of the games of the day, in schedule order; game_pk is the position
Schedules == {<<"I", "F">>, <<"I", "S">>, <<"F", "F">>, <<"S", "P">>}

\* boxscore teams of a game: game 2 is played by a team that Team_Affiliates.csv lacks
GameTeams(g) ==
  IF g = 1
  THEN [away_team |-> "Boston Red Sox", away_team_id |-> Some(111),
        home_team |-> "New York Yankees", home_team_id |-> Some(147)]
  ELSE [away_team |-> "Sugar Land Space Cowboys", away_team_id |-> Some(5434),
        home_team |-> "New York Yankees", home_team_id |-> Some(147)]

\* fullName of the player ids: two pitchers and two batters share a name
FullName(id) ==
  CASE id \in {1, 3} -> "Al Arm"
    [] id = 2 -> "Bo Bee"
    [] id = 4 -> "Luis L. Ortiz"
    [] id = 5 -> "Cy Dee"
    [] id \in {7, 8} -> "John Smith"
    [] OTHER -> "Ty Cobb"

\* the pitching logs that get_game_logs returns for a game (game_box[1]) with the
\* columns getBoxDetails reads; IP in tenths, as the float of the feed's 'x.y'
Pitbox(g) ==
  IF g = 1
  THEN << [Player |-> "Al Arm", Team |-> "New York Yankees", IP |-> 20, H |-> 1, ER |-> 0, SO |-> 2, BB |-> 1],
          [Player |-> "Bo Bee", Team |-> "New York Yankees", IP |-> 10, H |-> 0, ER |-> 0, SO |-> 0, BB |-> 0],
          [Player |-> "Al Arm", Team |-> "Boston Red Sox", IP |-> 10, H |-> 1, ER |-> 1, SO |-> 0, BB |-> 0],
          [Player |-> "Luis L. Ortiz", Team |-> "Boston Red Sox", IP |-> 10, H |-> 0, ER |-> 0, SO |-> 1, BB |-> 0] >>
  ELSE << [Player |-> "Bo Bee", Team |-> "New York Yankees", IP |-> 80, H |-> 4, ER |-> 1, SO |-> 9, BB |-> 0],
          [Player |-> "Al Arm", Team |-> "New York Yankees", IP |-> 10, H |-> 0, ER |-> 0, SO |-> 1, BB |-> 0],
          [Player |-> "Cy Dee", Team |-> "Sugar Land Space Cowboys", IP |-> 80, H |-> 9, ER |-> 5, SO |-> 3, BB |-> 2] >>

\* line 539: astype(str) of a float column with one decimal
FloatStr(t) == ToString(t \div 10) \o "." \o ToString(t % 10)

\* line 539: the Line column of a pitcher's row
Line(p) ==
  FloatStr(p.IP) \o "IP " \o ToString(p.H) \o "H " \o ToString(p.ER) \o "ER "
    \o ToString(p.SO) \o "K " \o ToString(p.BB) \o "BB"

\* lines 539-541: the pitch lines (linebox) that getBoxDetails returns
linebox(pitbox) ==
  [i \in DOMAIN pitbox |-> [Pitcher |-> pitbox[i].Player, Line |-> Line(pitbox[i])]]

RECURSIVE SumIP(_, _)
\* line 557: the sum of the IP column over the rows of one team
SumIP(pitbox, team) ==
  IF pitbox = <<>> THEN 0
  ELSE (IF Head(pitbox).Team = team THEN Head(pitbox).IP ELSE 0) + SumIP(Tail(pitbox), team)

\* line 557: pitbox.groupby('Team')['IP'].sum(), the totals of the teams present.
\* The sum adds the decimal values (5.2 + 2.2 is 7.4, not the 8.1 of baseball);
\* the inputs drawn have at most two pitchers per team, whose fractions .0, .1,
\* .2 never add up to a whole number unless both are whole, so the float sum
\* and the tenths agree on the integer part
team_ip(pitbox) ==
  {SumIP(pitbox, t) : t \in {pitbox[i].Team : i \in DOMAIN pitbox}}

\* lines 558-559: int(np.min(team_ip['IP']) + 1)
curr_inning(pitbox) ==
  LET least == CHOOSE m \in team_ip(pitbox) : \A n \in team_ip(pitbox) : m <= n
  IN  (least + 10) \div 10

\* lines 561-564: the inning shown is 'F' from the ninth on, whatever the game's status
inningprint(pitbox) ==
  IF curr_inning(pitbox) >= 9 THEN "F" ELSE ToString(curr_inning(pitbox))

\* line 579: the scoreboard row of the game (its Inn column)
this_score(pitbox) == [Inn |-> inningprint(pitbox)]

\* the pitch lines (linebox) that getBoxDetails returns for a game
Linebox(g) == linebox(Pitbox(g))

\* the pitch-level fields of a pitch event without tracking data
NoPitchData ==
  [description |-> None, IsStrike |-> None, IsBall |-> None, isInPlay |-> None,
   balls |-> Some(0), strikes |-> Some(0), pitch_name |-> None, pitch_type |-> None,
   release_speed |-> None, zone |-> None, zone_top |-> None, zone_bot |-> None,
   plate_x |-> None, plate_y |-> None, launch_speed |-> None, launch_angle |-> None,
   bb_type |-> None, play_res |-> None, play_desc |-> None]

Tracked ==
  [pitch_name |-> Some("Four-Seam Fastball"), pitch_type |-> Some("FF"),
   release_speed |-> Some(951), zone |-> Some(5), zone_top |-> Some(340),
   zone_bot |-> Some(160), plate_x |-> Some(100), plate_y |-> Some(200),
   isInPlay |-> Some(FALSE)] @@ NoPitchData

oBall ==
  [description |-> Some("Ball"), IsBall |-> Some(TRUE), IsStrike |-> Some(FALSE),
   balls |-> Some(1), zone |-> Some(12), plate_x |-> Some(160),
   play_res |-> Some("walk"), play_desc |-> Some("John Smith walks.")] @@ Tracked

oWalk == [balls |-> Some(4)] @@ oBall

oStrikeout ==
  [description |-> Some("Swinging Strike"), IsStrike |-> Some(TRUE), IsBall |-> Some(FALSE),
   strikes |-> Some(3), pitch_name |-> Some("Slider"), pitch_type |-> Some("SL"),
   release_speed |-> Some(850), play_res |-> Some("strikeout"),
   play_desc |-> Some("John Smith strikes out swinging.")] @@ Tracked

oSingle ==
  [description |-> Some("In play, no out"), isInPlay |-> Some(TRUE),
   launch_speed |-> Some(980), launch_angle |-> Some(120), bb_type |-> Some("line_drive"),
   play_res |-> Some("single"), play_desc |-> Some("Ty Cobb singles on a line drive.")] @@ Tracked

oDoublePlay ==
  [description |-> Some("In play, out(s)"), isInPlay |-> Some(TRUE),
   pitch_name |-> Some("Two-Seam Fastball"), pitch_type |-> Some("SI"),
   launch_speed |-> Some(552), launch_angle |-> Some(-100), bb_type |-> Some("ground_ball"),
   play_res |-> Some("grounded_into_double_play"),
   play_desc |-> Some("John Smith grounds into a double play, shortstop to first.")] @@ Tracked

oHomer ==
  [description |-> Some("In play, run(s)"), isInPlay |-> Some(TRUE),
   launch_speed |-> Some(1085), launch_angle |-> Some(280), bb_type |-> Some("fly_ball"),
   play_res |-> Some("home_run"), play_desc |-> Some("John Smith homers (1).")] @@ Tracked

\* a pitch-timer strike: no pitch is thrown, so the event has no pitchData
oAutoStrike ==
  [description |-> Some("Automatic Strike"), IsStrike |-> Some(TRUE), strikes |-> Some(1),
   play_res |-> Some("strikeout"), play_desc |-> Some("Ty Cobb strikes out.")] @@ NoPitchData

\* a ball in play whose details lack the isInPlay field
oNoInPlayField ==
  [description |-> Some("In play, out(s)"), isInPlay |-> None,
   launch_speed |-> Some(1050), launch_angle |-> Some(450), bb_type |-> Some("ground_ball"),
   play_res |-> Some("field_out"), play_desc |-> Some("Ty Cobb grounds out.")] @@ Tracked

\* the row that get_MILB_PBP_Live builds for one pitch event (lines 230-251)
Pitch(g, half, pid, bid, inn, ab, pn, o) ==
  [game_pk |-> g, inning_top_bot |-> half, pitcher |-> pid, player_name |-> FullName(pid),
   batter |-> bid, BatterName |-> FullName(bid), inning |-> inn, at_bat_number |-> ab,
   pitch_number |-> pn] @@ GameTeams(g) @@ o

\* pitch events of the two games, as <<game, row>>-independent rows carrying game_pk
PitchFeed ==
  { Pitch(1, "top", 1, 7, 1, 1, 1, oBall),
    Pitch(1, "top", 1, 7, 1, 1, 1, oStrikeout),
    Pitch(1, "top", 1, 7, 1, 1, 2, oWalk),
    Pitch(1, "top", 1, 8, 1, 2, 1, oStrikeout),
    Pitch(1, "top", 1, 9, 1, 3, 1, oSingle),
    Pitch(1, "top", 2, 8, 2, 9, 1, oDoublePlay),
    Pitch(1, "top", 2, 9, 2, 10, 1, oNoInPlayField),
    Pitch(1, "top", 1, 9, 3, 17, 1, oAutoStrike),
    Pitch(1, "bottom", 3, 8, 1, 5, 1, oHomer),
    Pitch(1, "bottom", 4, 9, 2, 13, 1, oAutoStrike),
    Pitch(1, "bottom", 4, 7, 2, 14, 1, oStrikeout),
    Pitch(2, "top", 2, 7, 1, 1, 1, oStrikeout),
    Pitch(2, "top", 1, 8, 9, 70, 1, oBall),
    Pitch(2, "bottom", 5, 9, 1, 4, 1, oSingle) }

\* Files/lsaclass.csv as read: speed and angle in tenths, the tier 1..6.
\* The second file holds fractional keys, two of which round to the same pair.
LsaFiles ==
  { << [launch_speed |-> Some(980), launch_angle |-> Some(120), launch_speed_angle |-> Some(4)],
       [launch_speed |-> Some(1080), launch_angle |-> Some(280), launch_speed_angle |-> Some(6)],
       [launch_speed |-> Some(550), launch_angle |-> Some(-100), launch_speed_angle |-> Some(2)],
       [launch_speed |-> Some(610), launch_angle |-> Some(50), launch_speed_angle |-> Some(3)] >>,
    << [launch_speed |-> Some(980), launch_angle |-> Some(120), launch_speed_angle |-> Some(4)],
       [launch_speed |-> Some(984), launch_angle |-> Some(116), launch_speed_angle |-> Some(5)],
       [launch_speed |-> Some(1085), launch_angle |-> Some(280), launch_speed_angle |-> Some(6)],
       [launch_speed |-> Some(552), launch_angle |-> Some(-100), launch_speed_angle |-> Some(2)] >> }

(***************************************************************************)
(* main (lines 830-961).  pc is the position in main:                      *)
(*   "schedule" line 848, "check" line 856, "wait" line 957,               *)
(*   "games" line 864, "pbp" line 878, "display" lines 921-948,            *)
(*   "raised" the KeyError of savAddOns left main,                         *)
(*   "fetch_raised" an exception of a boxscore or play-by-play fetch left  *)
(*   main, "parse_raised" an exception of the play-by-play parser did.     *)
(* payload is the upstream JSON object that a parser is reading, and       *)
(* pitching_logs the list that get_game_logs builds from it.               *)
(* pitcher_detail_dataframe_container is the page placeholder of lines     *)
(* 838 and 934, None until the first cycle has drawn its page.             *)
(* livedb is the table that the game loop accumulates (lines 863-884);     *)
(* line 888 rebinds that name to the result of savAddOns, which the model  *)
(* keeps apart as pdf, the name the table has inside savAddOns.            *)
(***************************************************************************)
\* lines 509-520: the second if statement assigns return_status on both of its branches, so the
\* value of the first one (first_status) never reaches the return
checkStatus(gamestatuslist) ==
  LET first_status == IF /\ "I" \notin gamestatuslist /\ "S" \notin gamestatuslist
                         /\ "P" \notin gamestatuslist
                      THEN "Stop" ELSE "unbound"
      return_status == IF "I" \notin gamestatuslist THEN "Wait" ELSE "live"
  IN  return_status

Init ==
  /\ pc = "schedule"
  /\ pitcher_detail_dataframe_container = None
  /\ payload = None
  /\ pitching_logs = <<>>
  /\ lsaclass \in {LoadLsaclass(f) : f \in LsaFiles}
  /\ today_games = <<>>
  /\ game = 0
  /\ gamedb = <<>>
  /\ livedb = <<>>
  /\ all_pitboxes = <<>>
  /\ scoreboard_df = <<>>
  /\ pdf = <<>>
  /\ cplist = <<>>
  /\ p_data = <<>>
  /\ pmix_data = <<>>

\* lines 848-854: the schedule of the day is fetched
GetLiveGames ==
  /\ pc = "schedule"
  /\ today_games' \in Schedules
  /\ pc' = "check"
  /\ UNCHANGED <<scoreboard_df, pitcher_detail_dataframe_container, payload, pitching_logs, lsaclass, game, gamedb, livedb, all_pitboxes, pdf, cplist, p_data, pmix_data>>

CheckStatusKeepsRows ==
  /\ pc = "check"
  /\ LET check_status_result == checkStatus(Range(today_games))
     IN  CASE check_status_result = "live" ->
                /\ pc' = "games"
                /\ game' = 1
                /\ UNCHANGED <<gamedb, livedb, all_pitboxes>>
           [] check_status_result = "Stop" ->
                /\ pc' = "stopped"
                /\ UNCHANGED <<game, gamedb, livedb, all_pitboxes>>
           [] OTHER ->
                /\ pc' = "wait"
                /\ UNCHANGED <<game, gamedb, livedb, all_pitboxes>>
  /\ UNCHANGED <<scoreboard_df, pitcher_detail_dataframe_container, payload, pitching_logs, lsaclass, today_games, pdf, cplist, p_data, pmix_data>>

\* lines 855-863 and 951-957: the answer of checkStatus selects the branch;
\* the live branch starts from empty accumulators
CheckStatus ==
  /\ pc = "check"
  /\ LET check_status_result == checkStatus(Range(today_games))
     IN  CASE check_status_result = "live" ->
                /\ pc' = "games"
                /\ game' = 1
                /\ livedb' = <<>>
                /\ all_pitboxes' = <<>>
                /\ scoreboard_df' = <<>>
                /\ UNCHANGED gamedb
           [] check_status_result = "Stop" ->
                /\ pc' = "stopped"
                /\ UNCHANGED <<game, gamedb, livedb, all_pitboxes, scoreboard_df>>
           [] OTHER ->
                /\ pc' = "wait"
                /\ UNCHANGED <<game, gamedb, livedb, all_pitboxes, scoreboard_df>>
  /\ UNCHANGED <<pitcher_detail_dataframe_container, payload, pitching_logs, lsaclass, today_games, pdf, cplist, p_data, pmix_data>>

\* line 957 and back to line 855: after the sleep the same status list is checked again
WaitTenMinutes ==
  /\ pc = "wait"
  /\ pc' = "check"
  /\ UNCHANGED <<scoreboard_df, pitcher_detail_dataframe_container, payload, pitching_logs, lsaclass, today_games, game, gamedb, livedb, all_pitboxes, pdf, cplist,
                 p_data, pmix_data>>

\* lines 865-867: a game that is neither in progress nor final is skipped
SkipGame ==
  /\ pc = "games"
  /\ game <= Len(today_games)
  /\ today_games[game] \notin {"I", "F"}
  /\ game' = game + 1
  /\ UNCHANGED <<scoreboard_df, pc, pitcher_detail_dataframe_container, payload, pitching_logs, lsaclass, today_games, gamedb, livedb, all_pitboxes, pdf, cplist,
                 p_data, pmix_data>>

\* lines 868-875: the boxscore of the game is fetched and its lines are appended
BeginGame ==
  /\ pc = "games"
  /\ game <= Len(today_games)
  /\ today_games[game] \in {"I", "F"}
  /\ all_pitboxes' = all_pitboxes \o Linebox(game)
  /\ scoreboard_df' = Append(scoreboard_df, this_score(Pitbox(game)))
  /\ gamedb' = <<>>
  /\ pc' = "pbp"
  /\ UNCHANGED <<pitcher_detail_dataframe_container, payload, pitching_logs, lsaclass, today_games, game, livedb, pdf, cplist, p_data, pmix_data>>

\* lines 262-272 called from line 868: the boxscore request fails, or its answer has
\* no 'teams' object, and get_game_logs raises; main has no handler around the call
GetGameLogsRaises ==
  /\ pc = "games"
  /\ game <= Len(today_games)
  /\ today_games[game] \in {"I", "F"}
  /\ pc' = "fetch_raised"
  /\ UNCHANGED <<scoreboard_df, pitcher_detail_dataframe_container, payload, pitching_logs, lsaclass, today_games, game, gamedb, livedb,
                 all_pitboxes, pdf, cplist, p_data, pmix_data>>

\* lines 93-110 called from line 878: the boxscore or the play-by-play request of
\* get_MILB_PBP_Live fails before any play is read; main has no handler either
PlayByPlayRaises ==
  /\ pc = "pbp"
  /\ gamedb = <<>>
  /\ pc' = "fetch_raised"
  /\ UNCHANGED <<scoreboard_df, pitcher_detail_dataframe_container, payload, pitching_logs, lsaclass, today_games, game, gamedb, livedb,
                 all_pitboxes, pdf, cplist, p_data, pmix_data>>

\* get_MILB_PBP_Live, lines 113-252: one pitch event of the game becomes a row.
\* allPlays lists the plays in the order played, so a row never precedes the
\* row before it; an event may occur twice.
ParsePitch(feed, max) ==
  /\ pc = "pbp"
  /\ Len(livedb) + Len(gamedb) < max
  /\ \E r \in feed :
       /\ r.game_pk = game
       /\ gamedb # <<>> => ~PitchOrderLess(r, gamedb[Len(gamedb)])
       /\ gamedb' = Append(gamedb, r)
  /\ UNCHANGED <<scoreboard_df, pc, pitcher_detail_dataframe_container, payload, pitching_logs, lsaclass, today_games, game, livedb, all_pitboxes, pdf, cplist,
                 p_data, pmix_data>>

\* lines 102-108: 'startSpeed' occurs in the payload
statcastflag(rows) == IF \E i \in DOMAIN rows : rows[i].release_speed # None THEN "Y" ELSE "N"

\* lines 879-886: the rows of a tracked game are added with the game's status
EndGame ==
  /\ pc = "pbp"
  /\ livedb' = IF Len(gamedb) = 0 THEN livedb
               ELSE IF statcastflag(gamedb) = "Y"
               THEN livedb \o MapRows(gamedb, LAMBDA r : [game_status |-> today_games[game]] @@ r)
               ELSE livedb
  /\ gamedb' = <<>>
  /\ game' = game + 1
  /\ pc' = "games"
  /\ UNCHANGED <<scoreboard_df, pitcher_detail_dataframe_container, payload, pitching_logs, lsaclass, today_games, all_pitboxes, pdf, cplist, p_data, pmix_data>>

\* lines 888-906 on a table with rows
Derive ==
  /\ pc = "games"
  /\ game > Len(today_games)
  /\ livedb # <<>>
  /\ LET out == savAddOns(livedb, lsaclass)
         cp  == CurrentPitchers(out)
         db  == WithDP(out)
     IN  /\ pdf' = db
         /\ cplist' = cp
         /\ p_data' = getPData(db, all_pitboxes, cp)
         /\ pmix_data' = getPMixData(db, cp)
  /\ pc' = "display"
  /\ UNCHANGED <<scoreboard_df, pitcher_detail_dataframe_container, payload, pitching_logs, lsaclass, today_games, game, gamedb, livedb, all_pitboxes>>

\* line 888 on the table of line 863, which has no columns: line 360 raises KeyError
DeriveEmpty ==
  /\ pc = "games"
  /\ game > Len(today_games)
  /\ livedb = <<>>
  /\ pc' = "raised"
  /\ UNCHANGED <<scoreboard_df, pitcher_detail_dataframe_container, payload, pitching_logs, lsaclass, today_games, game, gamedb, livedb, all_pitboxes, pdf, cplist,
                 p_data, pmix_data>>

\* lines 921-961: the page is drawn, main sleeps and starts the next cycle.  The
\* tables of this cycle are not read again (each is assigned before its next use);
\* the page's placeholder (lines 674-690) is made once and kept for later cycles.
Sleep ==
  /\ pc = "display"
  /\ pc' = "schedule"
  /\ pdf' = <<>>
  /\ cplist' = <<>>
  /\ p_data' = <<>>
  /\ pmix_data' = <<>>
  /\ pitcher_detail_dataframe_container' = Some("st.empty")
  /\ UNCHANGED <<scoreboard_df, payload, pitching_logs, lsaclass, today_games, game, gamedb, livedb, all_pitboxes>>

Next ==
  \/ GetLiveGames
  \/ CheckStatus
  \/ WaitTenMinutes
  \/ SkipGame
  \/ BeginGame
  \/ GetGameLogsRaises
  \/ PlayByPlayRaises
  \/ ParsePitch(PitchFeed, MaxRows)
  \/ EndGame
  \/ Derive
  \/ DeriveEmpty
  \/ Sleep

Spec == Init /\ [][Next]_vars

\* main runs on: the status check and the end of the ten-minute sleep are not
\* put off forever
SpecFair == Init /\ [][Next]_vars /\ WF_vars(CheckStatus) /\ WF_vars(WaitTenMinutes)

(***************************************************************************)
(* One pitch event through the pipeline: the row is drawn from wide        *)
(* domains, one group of columns at a time, and is the only row of the     *)
(* only game of the day.                                                   *)
(***************************************************************************)
KnownDescriptions ==
  pitchthrownlist \cup swstrlist \cup cslist \cup contlist \cup swinglist
    \cup isstrikelist \cup isballlist

\* call descriptions: every listed one, two that no list holds, and a missing call
Descriptions ==
  {Some(d) : d \in KnownDescriptions \cup {"Pickoff Attempt 1B", "Batter Timeout"}}
    \cup {None}

CallRows ==
  { Pitch(1, "top", 1, 7, 1, 1, 1,
          [description |-> d, balls |-> b, strikes |-> k, isInPlay |-> p, zone |-> z] @@ oBall) :
      d \in Descriptions, b \in {Some(1), Some(4)}, k \in {Some(0), Some(3)},
      p \in {None, Some(FALSE), Some(TRUE)}, z \in {None, Some(5), Some(12)} }

BattedRows ==
  { Pitch(1, "top", 1, 9, 1, 3, 1,
          [launch_speed |-> v, launch_angle |-> a] @@ oSingle) :
      v \in {None, Some(4), Some(10), Some(11), Some(552), Some(595), Some(605),
             Some(980), Some(984), Some(1050), Some(1085)},
      a \in {None, Some(-100), Some(116), Some(120), Some(125), Some(280), Some(450)} }

PlateRows ==
  { Pitch(1, h, 1, 8, 1, 2, 1,
          [plate_x |-> x, plate_y |-> y, zone_top |-> t, zone_bot |-> b, zone |-> z]
            @@ oStrikeout) :
      h \in {"top", "bottom"}, z \in {None, Some(9), Some(10)},
      x \in {None, Some(69), Some(70), Some(140), Some(141)},
      y \in {None, Some(159), Some(160), Some(340), Some(341)},
      t \in {None, Some(340)}, b \in {None, Some(160)} }

RowFeed == CallRows \cup BattedRows \cup PlateRows

InitRow ==
  /\ pc = "pbp"
  /\ pitcher_detail_dataframe_container = None
  /\ payload = None
  /\ pitching_logs = <<>>
  /\ lsaclass \in {LoadLsaclass(f) : f \in LsaFiles}
  /\ today_games = <<"I">>
  /\ game = 1
  /\ gamedb \in {<<r>> : r \in RowFeed}
  /\ livedb = <<>>
  /\ all_pitboxes = Linebox(1)
  /\ scoreboard_df = <<this_score(Pitbox(1))>>
  /\ pdf = <<>>
  /\ cplist = <<>>
  /\ p_data = <<>>
  /\ pmix_data = <<>>

NextRow == EndGame \/ Derive

SpecRow == InitRow /\ [][NextRow]_vars

(***************************************************************************)
(* get_MILB_PBP_Live on one play of the payload (lines 113-252).  A JSON   *)
(* object is a record whose optional members are None when the key is      *)
(* absent (dict.get answers None) and <<object>> when it is present;       *)
(* calling .get on None raises AttributeError, which only the try blocks   *)
(* of the parser catch.                                                    *)
(***************************************************************************)
\* hitData objects: each member present or absent, and no hitData at all
HitDatas ==
  {None} \cup
  { Some([launchSpeed |-> v, launchAngle |-> a, trajectory |-> t, coordinates |-> c]) :
      v \in {None, Some(980)}, a \in {None, Some(120)},
      t \in {None, Some("line_drive")},
      c \in {None, Some([coordX |-> Some(1200), coordY |-> Some(900)])} }

PitchDatas ==
  {None} \cup
  { Some([coordinates |-> c, breaks |-> b, zone |-> z, startSpeed |-> Some(951),
          strikeZoneTop |-> Some(340), strikeZoneBottom |-> Some(160)]) :
      c \in {None, Some([x |-> Some(100), y |-> Some(200)])},
      b \in {None, Some([breakAngle |-> Some(12)])},
      z \in {None, Some(5)} }

DetailsObjects ==
  {None} \cup
  { Some([event |-> e, call |-> c, type |-> t, isInPlay |-> Some(TRUE),
          isStrike |-> Some(FALSE), isBall |-> Some(FALSE)]) :
      e \in {None, Some("Pitching Substitution")},
      c \in {None, Some([description |-> Some("In play, no out")])},
      t \in {None, Some([description |-> Some("Two-Seam Fastball"), code |-> Some("SI")])} }

Counts == {None, Some([balls |-> Some(1), strikes |-> Some(2)])}

Matchups ==
  {None} \cup
  { Some([batter |-> b, pitcher |-> Some([id |-> 2, fullName |-> FullName(2)])]) :
      b \in {None, Some([id |-> 9, fullName |-> FullName(9)])} }

Abouts == {None, Some([halfInning |-> "top", inning |-> 2, atBatIndex |-> 9])}

FullPitchEvent ==
  [details |-> CHOOSE d \in DetailsObjects :
                 d # None /\ d[1].event = None /\ d[1].call # None /\ d[1].type # None,
   pitchNumber |-> 1,
   count |-> CHOOSE c \in Counts : c # None,
   pitchData |-> CHOOSE d \in PitchDatas :
                   d # None /\ d[1].coordinates # None /\ d[1].breaks # None /\ d[1].zone # None,
   hitData |-> CHOOSE h \in HitDatas :
                 /\ h # None /\ h[1].launchSpeed # None /\ h[1].launchAngle # None
                 /\ h[1].trajectory # None /\ h[1].coordinates # None]

FullPlay ==
  [about |-> CHOOSE a \in Abouts : a # None,
   result |-> Some([eventType |-> Some("single"),
                    description |-> Some("Ty Cobb singles on a line drive.")]),
   matchup |-> CHOOSE m \in Matchups : m # None /\ m[1].batter # None,
   playEvents |-> <<FullPitchEvent>>]

\* plays with one pitch event: the batted-ball and tracking objects vary together,
\* and so do the call, count, matchup and about objects
Plays ==
  { [playEvents |-> << [hitData |-> h, pitchData |-> d] @@ FullPitchEvent >>] @@ FullPlay :
      h \in HitDatas, d \in PitchDatas }
  \cup
  { [about |-> a, matchup |-> m,
     playEvents |-> << [details |-> d, count |-> c] @@ FullPitchEvent >>] @@ FullPlay :
      a \in Abouts, m \in Matchups, d \in DetailsObjects, c \in Counts }

\* lines 114-133: the play-level members are read outside any try block
PlayRaises(play) ==
  \/ play.about = None
  \/ play.result = None
  \/ play.matchup = None
  \/ play.matchup[1].batter = None
  \/ play.matchup[1].pitcher = None

\* lines 136-137 and 153-154: details and count are read outside any try block
PitchRaises(pitch) ==
  \/ pitch.details = None
  \/ pitch.count = None

\* lines 139-228, the fields of one pitch event.  Each try block is all or
\* nothing: the first statement that raises sends the block to its except branch,
\* which sets every variable of the block to None.  round(None, 0) raises
\* TypeError, so the hitData block needs launchSpeed, launchAngle and coordinates.
ParsePitchFields(pitch) ==
  LET pdetails == pitch.details[1]
      pd == pitch.pitchData
      hd == pitch.hitData
      coords == pd # None /\ pd[1].coordinates # None
      tracked == coords /\ pd[1].breaks # None
      hit == /\ hd # None /\ hd[1].launchSpeed # None /\ hd[1].launchAngle # None
             /\ hd[1].coordinates # None
  IN  [description   |-> IF pdetails.call = None THEN None ELSE pdetails.call[1].description,
       isInPlay      |-> pdetails.isInPlay,
       IsStrike      |-> pdetails.isStrike,
       IsBall        |-> pdetails.isBall,
       pitch_name    |-> IF pdetails.type = None THEN None ELSE pdetails.type[1].description,
       pitch_type    |-> IF pdetails.type = None THEN None ELSE pdetails.type[1].code,
       balls         |-> pitch.count[1].balls,
       strikes       |-> pitch.count[1].strikes,
       plate_x       |-> IF coords THEN pd[1].coordinates[1].x ELSE None,
       plate_y       |-> IF coords THEN pd[1].coordinates[1].y ELSE None,
       release_speed |-> IF pd = None THEN None ELSE pd[1].startSpeed,
       zone_top      |-> IF pd = None THEN None ELSE pd[1].strikeZoneTop,
       zone_bot      |-> IF pd = None THEN None ELSE pd[1].strikeZoneBottom,
       zone          |-> IF tracked THEN pd[1].zone ELSE None,
       launch_speed  |-> IF hit THEN hd[1].launchSpeed ELSE None,
       launch_angle  |-> IF hit THEN hd[1].launchAngle ELSE None,
       bb_type       |-> IF hit THEN hd[1].trajectory ELSE None]

\* lines 114-133 and 230-251: the row of a pitch event of a play of game g
ParsePitchRow(g, play, pitch) ==
  [game_pk        |-> g,
   inning_top_bot |-> play.about[1].halfInning,
   inning         |-> play.about[1].inning,
   at_bat_number  |-> play.about[1].atBatIndex + 1,
   pitch_number   |-> pitch.pitchNumber,
   pitcher        |-> play.matchup[1].pitcher[1].id,
   player_name    |-> play.matchup[1].pitcher[1].fullName,
   batter         |-> play.matchup[1].batter[1].id,
   BatterName     |-> play.matchup[1].batter[1].fullName,
   play_res       |-> play.result[1].eventType,
   play_desc      |-> play.result[1].description] @@ GameTeams(g) @@ ParsePitchFields(pitch)

\* line 138: an element of playEvents with an 'event' member is an action, not a pitch
IsPitchEvent(pitch) == pitch.details[1].event = None

\* the loop over the plays, lines 113-252, on the play in payload, which has one event
ParsePlay ==
  /\ pc = "play"
  /\ LET play == payload[1]
         pitch == play.playEvents[1]
     IN  IF PlayRaises(play) \/ PitchRaises(pitch)
         THEN /\ pc' = "parse_raised"
              /\ UNCHANGED gamedb
         ELSE /\ pc' = "pbp"
              /\ gamedb' = IF IsPitchEvent(pitch)
                           THEN Append(gamedb, ParsePitchRow(game, play, pitch))
                           ELSE gamedb
  /\ UNCHANGED <<scoreboard_df, pitcher_detail_dataframe_container, payload, pitching_logs, lsaclass, today_games, game, livedb, all_pitboxes,
                 pdf, cplist, p_data, pmix_data>>

InitParse ==
  /\ pc = "play"
  /\ pitcher_detail_dataframe_container = None
  /\ payload \in {Some(play) : play \in Plays}
  /\ pitching_logs = <<>>
  /\ lsaclass \in {LoadLsaclass(f) : f \in LsaFiles}
  /\ today_games = <<"I">>
  /\ game = 1
  /\ gamedb = <<>>
  /\ livedb = <<>>
  /\ all_pitboxes = Linebox(1)
  /\ scoreboard_df = <<this_score(Pitbox(1))>>
  /\ pdf = <<>>
  /\ cplist = <<>>
  /\ p_data = <<>>
  /\ pmix_data = <<>>

NextParse == ParsePlay \/ EndGame \/ Derive

SpecParse == InitParse /\ [][NextParse]_vars

(***************************************************************************)
(* get_game_logs on one player of the boxscore payload (lines 277-352).    *)
(* The pitching statistics are read with .get(key, ""), and int("")        *)
(* raises ValueError; inningsPitched is a string such as "5.2", which      *)
(* float() reads as the number 5.2, held here in tenths.                   *)
(***************************************************************************)
Digit(c) == CHOOSE d \in 0..9 : ToString(d) = c

\* float(s) for a string of the form d.d, in tenths
Float(s) == Digit(SubSeq(s, 1, 1)) * 10 + Digit(SubSeq(s, 3, 3))

\* stats.pitching of a player: empty for a player who did not pitch (None here)
PitchingStats ==
  {None} \cup
  { Some([gamesStarted |-> Some(gs), inningsPitched |-> Some(ip), earnedRuns |-> er]) :
      gs \in {0, 1, 2}, ip \in {"0.1", "5.2", "6.0", "6.1", "9.0"},
      er \in {None, Some(0), Some(3), Some(4)} }

Players ==
  { [person |-> [id |-> 2, fullName |-> FullName(2)], stats |-> [pitching |-> st]] :
      st \in PitchingStats }

QSWithoutStart(log) == IF log.IP >= 60 /\ log.ER <= 3 THEN 1 ELSE 0

\* lines 347-350
QS(log) == IF log.GS > 0 /\ log.IP >= 60 /\ log.ER <= 3 THEN 1 ELSE 0

\* lines 312-350: the pitching line of a player with pitching statistics
pitching_log(player) ==
  LET st == player.stats.pitching[1]
      log == [Player    |-> player.person.fullName,
              player_id |-> player.person.id,
              GS        |-> st.gamesStarted[1],
              IP        |-> Float(st.inningsPitched[1]),
              ER        |-> st.earnedRuns[1]]
  IN  [QS |-> QS(log)] @@ log

\* lines 277-352 for the player in payload
GetGameLogs ==
  /\ pc = "boxscore"
  /\ LET player == payload[1]
         st == player.stats.pitching
     IN  IF st = None
         THEN pc' = "boxed" /\ UNCHANGED pitching_logs
         ELSE IF st[1].gamesStarted = None \/ st[1].inningsPitched = None
                   \/ st[1].earnedRuns = None
         THEN pc' = "fetch_raised" /\ UNCHANGED pitching_logs
         ELSE /\ pc' = "boxed"
              /\ pitching_logs' = Append(pitching_logs, pitching_log(player))
  /\ UNCHANGED <<scoreboard_df, pitcher_detail_dataframe_container, payload, lsaclass, today_games, game,
                 gamedb, livedb, all_pitboxes, pdf, cplist, p_data, pmix_data>>

InitBox ==
  /\ pc = "boxscore"
  /\ pitcher_detail_dataframe_container = None
  /\ payload \in {Some(player) : player \in Players}
  /\ pitching_logs = <<>>
  /\ lsaclass \in {LoadLsaclass(f) : f \in LsaFiles}
  /\ today_games \in {<<"I">>, <<"F">>}
  /\ game = 1
  /\ gamedb = <<>>
  /\ livedb = <<>>
  /\ all_pitboxes = <<>>
  /\ scoreboard_df = <<>>
  /\ pdf = <<>>
  /\ cplist = <<>>
  /\ p_data = <<>>
  /\ pmix_data = <<>>

NextBox == GetGameLogs

SpecBox == InitBox /\ [][NextBox]_vars

(***************************************************************************)
(* The scoreboard row of one game.  get_game_logs has returned the         *)
(* pitching logs of the game's two teams; getBoxDetails builds the pitch   *)
(* lines and the scoreboard row from them.                                 *)
(***************************************************************************)

\* innings pitched (tenths) of a team's starter and of its reliever, if any
StarterIPs == {20, 52, 71, 80, 90}

RelieverIPs == {1, 10, 21}

\* the pitching rows of one team: its starter, or its starter and one reliever
TeamLogs(team, starter, reliever) ==
  LET row(name, ip) == [Player |-> name, Team |-> team, IP |-> ip, H |-> 4, ER |-> 1, SO |-> 5, BB |-> 1]
  IN  {<<row(starter, s)>> : s \in StarterIPs}
        \cup {<<row(starter, s), row(reliever, r)>> : s \in StarterIPs, r \in RelieverIPs}

\* lines 277-352: the logs of a game, the away team's pitchers before the home team's
GameLogs ==
  {a \o h : a \in TeamLogs("Boston Red Sox", "Cy Dee", "Luis L. Ortiz"),
            h \in TeamLogs("New York Yankees", "Al Arm", "Bo Bee")}

\* lines 869-875: getBoxDetails on the logs of the game; its pitch lines and its
\* scoreboard row are appended
GetBoxDetails ==
  /\ pc = "boxed"
  /\ all_pitboxes' = all_pitboxes \o linebox(pitching_logs)
  /\ scoreboard_df' = Append(scoreboard_df, this_score(pitching_logs))
  /\ gamedb' = <<>>
  /\ pc' = "pbp"
  /\ UNCHANGED <<pitcher_detail_dataframe_container, payload, pitching_logs, lsaclass, today_games, game,
                 livedb, pdf, cplist, p_data, pmix_data>>

InitScore ==
  /\ pc = "boxed"
  /\ pitcher_detail_dataframe_container = None
  /\ payload = None
  /\ pitching_logs \in GameLogs
  /\ lsaclass \in {LoadLsaclass(f) : f \in LsaFiles}
  /\ today_games \in {<<"I">>, <<"F">>}
  /\ game = 1
  /\ gamedb = <<>>
  /\ livedb = <<>>
  /\ all_pitboxes = <<>>
  /\ scoreboard_df = <<>>
  /\ pdf = <<>>
  /\ cplist = <<>>
  /\ p_data = <<>>
  /\ pmix_data = <<>>

NextScore == GetBoxDetails

SpecScore == InitScore /\ [][NextScore]_vars

(***************************************************************************)
(* Properties.  In a state with pc = "display" the tables pdf, cplist,     *)
(* p_data and pmix_data are those derived from livedb in this cycle.       *)
(***************************************************************************)
Derived == pc = "display"

KeysOf(t) == {PitchKey(t[i]) : i \in DOMAIN t}

\* the input row that an output row stems from: the first row of livedb with its key
Source(r) ==
  livedb[CHOOSE i \in DOMAIN livedb :
           /\ PitchKey(livedb[i]) = PitchKey(r)
           /\ \A j \in 1..(i - 1) : PitchKey(livedb[j]) # PitchKey(r)]

\* C1: the table returned by savAddOns holds exactly one row for each distinct
\* (game_pk, pitcher, batter, inning, at_bat_number, pitch_number) key of its
\* input: no key occurs twice and no key of the input is lost.
C1_OneRowPerKey ==
  Derived =>
    /\ KeysOf(pdf) = KeysOf(livedb)
    /\ \A i, j \in DOMAIN pdf : PitchKey(pdf[i]) = PitchKey(pdf[j]) => i = j

\* an input with the same key twice, and a row that the lookup join doubled
C1_Witness ==
  /\ Derived
  /\ \E i, j \in DOMAIN livedb : i # j /\ PitchKey(livedb[i]) = PitchKey(livedb[j])
  /\ Len(MergeLsaclass(MapRows(livedb, LAMBDA r : RoundLaunch(r)), lsaclass)) > Len(livedb)

\* C2: in every row returned by savAddOns IsBall and IsStrike are never both 1;
\* each is 0 or 1, and a description that is in none of the outcome lists sets
\* neither flag.
C2_BallStrikeExclusive ==
  Derived =>
    \A i \in DOMAIN pdf :
      /\ pdf[i].IsBall \in {0, 1}
      /\ pdf[i].IsStrike \in {0, 1}
      /\ pdf[i].IsBall + pdf[i].IsStrike <= 1
      /\ ~IsIn(pdf[i].description, KnownDescriptions)
           => pdf[i].IsBall = 0 /\ pdf[i].IsStrike = 0

\* a contact description, which is a strike and not a ball
C2_Witness ==
  /\ Derived
  /\ \E i \in DOMAIN pdf :
       /\ pdf[i].description = Some("Foul")
       /\ pdf[i].IsStrike = 1
       /\ pdf[i].IsBall = 0

\* the rows of the derived table that form one group of the per-pitcher aggregate
RowsOfPitcher(g) ==
  SelectSeq(pdf, LAMBDA r : PitcherKey(r) = <<g.Pitcher, g.ID, Some(g.Team)>>)

RowsOfMix(g) ==
  SelectSeq(pdf, LAMBDA r : MixKey(r) = <<g.Pitcher, g.ID, Some(g.Team), Some(g.Pitch)>>)

CountRows(rows, P(_)) == Cardinality({i \in DOMAIN rows : P(rows[i])})

\* C3: in the per-pitcher and the per-pitcher-per-pitch-type aggregate a rate whose
\* denominator sum (PitchesThrown, or IsBIP for the batted-ball rates) is zero is
\* null, never zero and never infinite.
C3_ZeroDenominatorIsNull ==
  Derived =>
    /\ \A g \in Range(PData(pdf, cplist)) :
         /\ CountRows(RowsOfPitcher(g), LAMBDA r : r.PitchesThrown = 1) = 0
              => g.SwStrPct = NaN /\ g.StrikePct = NaN /\ g.BallPct = NaN
         /\ CountRows(RowsOfPitcher(g), LAMBDA r : r.IsBIP = 1) = 0
              => g.GBPct = NaN /\ g.FBPct = NaN /\ g.LDPct = NaN /\ g.BrlPct = NaN
    /\ \A g \in Range(MixData(pdf)) :
         /\ CountRows(RowsOfMix(g), LAMBDA r : r.PitchesThrown = 1) = 0
              => g.SwStrPct = NaN /\ g.StrikePct = NaN /\ g.BallPct = NaN
         /\ CountRows(RowsOfMix(g), LAMBDA r : r.IsBIP = 1) = 0 => g.BrlPct = NaN

\* the tier of the first lookup row with the rounded speed and angle of the row
LookupTier(r) ==
  LET hits == {i \in DOMAIN lsaclass :
                 /\ lsaclass[i].launch_speed_round = Round0(r.launch_speed)
                 /\ lsaclass[i].launch_angle_round = Round0(r.launch_angle)}
  IN  IF hits = {} THEN None
      ELSE lsaclass[CHOOSE i \in hits : \A j \in hits : i <= j].launch_speed_angle

\* C4: the tier of a row is 1 when its rounded exit velocity is below 60, whatever
\* the angle and the lookup table say; it is 1 when the lookup gave no tier and the
\* exit velocity exceeds 1; otherwise it is the tier of the lookup table.  So no
\* row with an exit velocity above 1 has a null tier.
C4_TierRule ==
  Derived =>
    \A i \in DOMAIN pdf :
      LET r == pdf[i]
          below60 == IsLt(Round0(r.launch_speed), 60)
      IN  /\ below60 => r.launch_speed_angle = Some(1)
          /\ ~below60 /\ LookupTier(r) = None /\ IsGt(r.launch_speed, 10)
               => r.launch_speed_angle = Some(1)
          /\ ~below60 /\ ~(LookupTier(r) = None /\ IsGt(r.launch_speed, 10))
               => r.launch_speed_angle = LookupTier(r)
          /\ IsGt(r.launch_speed, 10) => r.launch_speed_angle # None

\* an exit velocity of 55.2 whose (55, -10) pair the lookup table rates 2
C4_Witness ==
  /\ Derived
  /\ \E i \in DOMAIN pdf :
       /\ pdf[i].launch_speed = Some(552)
       /\ LookupTier(pdf[i]) = Some(2)
       /\ pdf[i].launch_speed_angle = Some(1)

BatterIdsOf(n) == {livedb[i].batter : i \in {j \in DOMAIN livedb : livedb[j].BatterName = n}}

PitcherIdsOf(n) == {livedb[i].pitcher : i \in {j \in DOMAIN livedb : livedb[j].player_name = n}}

\* C5: when two batter ids share a BatterName in the input (two pitcher ids a
\* player_name), every row of that name carries the name followed by " - " and the
\* id of its own player; so the two ids get different strings, one id always the
\* same string, and the batter pass and the pitcher pass do not affect each other.
C5_SharedNamesGetIds ==
  Derived =>
    /\ \A i \in DOMAIN pdf :
         LET q == Source(pdf[i])
         IN  /\ Cardinality(BatterIdsOf(q.BatterName)) > 1
                  => pdf[i].BatterName = q.BatterName \o " - " \o ToString(q.batter)
             /\ Cardinality(PitcherIdsOf(q.player_name)) > 1
                  => pdf[i].player_name = q.player_name \o " - " \o ToString(q.pitcher)
    /\ \A i, j \in DOMAIN pdf :
         LET qi == Source(pdf[i])
             qj == Source(pdf[j])
         IN  /\ qi.BatterName = qj.BatterName /\ Cardinality(BatterIdsOf(qi.BatterName)) > 1
                  => (pdf[i].BatterName = pdf[j].BatterName <=> qi.batter = qj.batter)
             /\ qi.player_name = qj.player_name /\ Cardinality(PitcherIdsOf(qi.player_name)) > 1
                  => (pdf[i].player_name = pdf[j].player_name <=> qi.pitcher = qj.pitcher)

\* both pitchers called Al Arm and both batters called John Smith have rows
C5_Witness ==
  /\ Derived
  /\ {1, 3} \subseteq {pdf[i].pitcher : i \in DOMAIN pdf}
  /\ {7, 8} \subseteq {pdf[i].batter : i \in DOMAIN pdf}

EndsPlateAppearance(r) ==
  \/ IsEq(r.balls, 4)
  \/ IsEq(r.strikes, 3)
  \/ IsEq(r.isInPlay, TRUE)
  \/ IsEq(r.description, "Hit By Pitch")

DoublePlays(rows) ==
  CountRows(rows, LAMBDA r : /\ EndsPlateAppearance(r) /\ r.play_desc # None
                             /\ Contains(r.play_desc[1], "double play"))

\* v hundredths is x / 3 rounded to two decimals: no hundredth is nearer to x / 3
IsThirdRoundedTo2(v, x) ==
  /\ v.k = "num"
  /\ 2 * (3 * v.v - 100 * x) <= 3
  /\ 2 * (100 * x - 3 * v.v) <= 3

PitcherStatsOf(g) ==
  LET rows == RowsOfPitcher(g)
  IN  [TBF |-> CountRows(rows, EndsPlateAppearance),
       BB  |-> CountRows(rows, LAMBDA r : IsEq(r.balls, 4)),
       SO  |-> CountRows(rows, LAMBDA r : IsEq(r.strikes, 3)),
       H   |-> CountRows(rows, LAMBDA r : EndsPlateAppearance(r) /\ IsIn(r.play_res, hitlist)),
       DP  |-> DoublePlays(rows)]

\* C7 as claimed: every row of the table that getPData returns reports TBF, BB, SO,
\* H and an innings-pitched value of Outs / 3 rounded to two decimals, where
\* Outs = TBF - H - BB + double plays.
C7_ReturnedTableReportsTBF ==
  Derived =>
    LET pdata == Range(PData(pdf, cplist))
    IN  \A i \in DOMAIN p_data :
          /\ {"TBF", "BB", "SO", "H", "IP"} \subseteq DOMAIN p_data[i]
          /\ \E g \in pdata :
               /\ g.Pitcher = p_data[i].Pitcher
               /\ p_data[i].TBF = g.TBF
               /\ p_data[i].H = g.H
               /\ p_data[i].IP = g.IP

\* C7 as amended: the per-pitcher aggregate that getPData computes (one row per
\* name, id and team group) holds TBF, the count of plate-appearance-ending
\* pitches, BB, SO, H and IP = Outs / 3 rounded to two decimals, where
\* Outs = TBF - H - BB + double plays; the table that getPData returns carries of
\* these only SO and BB, and no TBF, H or IP.
C7_AggregateReportsTBF ==
  Derived =>
    LET pdata == Range(PData(pdf, cplist))
    IN  /\ \A g \in pdata :
             LET st == PitcherStatsOf(g)
             IN  /\ g.TBF = st.TBF
                 /\ g.BB = st.BB
                 /\ g.SO = st.SO
                 /\ g.H = st.H
                 /\ IsThirdRoundedTo2(g.IP, st.TBF - st.H - st.BB + st.DP)
        /\ \A i \in DOMAIN p_data :
             /\ DOMAIN p_data[i] \cap {"TBF", "H", "IP"} = {}
             /\ \E g \in pdata :
                  /\ g.Pitcher = p_data[i].Pitcher
                  /\ g.Team = p_data[i].Team
                  /\ g.SO = p_data[i].SO
                  /\ g.BB = p_data[i].BB

\* three plate appearances of one pitcher: a walk, a strikeout and a single
C7_Witness ==
  /\ Derived
  /\ \E g \in Range(PData(pdf, cplist)) :
       /\ Len(RowsOfPitcher(g)) = 3
       /\ g.TBF = 3 /\ g.BB = 1 /\ g.SO = 1 /\ g.H = 1
       /\ g.IP = Num(33)
  /\ p_data # <<>>

\* C9: when the cycle collected no pitch row at all, the derivation yields empty
\* tables and raises nothing.
C9_EmptyInputEmptyTables ==
  (pc \in {"display", "raised"} /\ livedb = <<>>) =>
    /\ pc = "display"
    /\ pdf = <<>>
    /\ p_data = <<>>
    /\ pmix_data = <<>>

TeamsPitching == {pdf[i].PitcherTeam_aff : i \in DOMAIN pdf}

\* the pitchers of the pitches of a team that no pitch of the team follows
LastPitchers(team) ==
  {pdf[i].player_name : i \in {j \in DOMAIN pdf :
      /\ pdf[j].PitcherTeam_aff = team
      /\ \A k \in DOMAIN pdf :
           pdf[k].PitcherTeam_aff = team => ~PitchOrderLess(pdf[j], pdf[k])}}

FinishedPitchers == {pdf[i].player_name : i \in {j \in DOMAIN pdf : pdf[j].game_status = "F"}}

\* C10: for each pitching team the current pitcher is the pitcher of the team's
\* last pitch in (inning, at_bat_number, pitch_number) order, unless that pitcher
\* has a row in a finished game, and then the team has no current pitcher.
C10_CurrentIsLastPitcher ==
  (Derived /\ \A team \in TeamsPitching : Cardinality(LastPitchers(team)) = 1) =>
    Range(cplist) = UNION {LastPitchers(team) : team \in TeamsPitching} \ FinishedPitchers

\* C11 as claimed: a boxscore or play-by-play fetch that fails for one game never
\* takes main out of its cycle: the game is skipped and the cycle goes on.
C11_FailedFetchIsSkipped == pc # "fetch_raised"

\* the value that a chain of .get calls would give if a missing object gave None
Opt(o, f) == IF o = None THEN None ELSE o[1][f]

\* C12 as claimed: a pitch event with a missing member still gives its row, and
\* every member that the payload holds is in the row: the call description, the
\* pitch type, the zone and the batted-ball trajectory, speed and angle.
C12_MissingFieldsDegradeToNull ==
  (/\ pc \in {"pbp", "parse_raised"}
   /\ payload # None
   /\ Opt(payload[1].playEvents[1].details, "event") = None) =>
    LET pitch == payload[1].playEvents[1]
    IN  /\ pc = "pbp"
        /\ Len(gamedb) = 1
        /\ gamedb[1].description = Opt(Opt(pitch.details, "call"), "description")
        /\ gamedb[1].pitch_type = Opt(Opt(pitch.details, "type"), "code")
        /\ gamedb[1].zone = Opt(pitch.pitchData, "zone")
        /\ gamedb[1].bb_type = Opt(pitch.hitData, "trajectory")
        /\ gamedb[1].launch_speed = Opt(pitch.hitData, "launchSpeed")
        /\ gamedb[1].launch_angle = Opt(pitch.hitData, "launchAngle")

PitcherIds == {pdf[i].pitcher : i \in DOMAIN pdf}

\* the display names that the derived pitch table gives to a pitcher id
DisplayNamesOf(id) == {pdf[i].player_name : i \in {j \in DOMAIN pdf : pdf[j].pitcher = id}}

\* C13 as claimed: the table that getPData returns holds exactly one row for every
\* pitcher id of the derived pitch table, also for a pitcher whose team affiliation
\* is null and also when several boxscore lines carry the pitcher's name; and the
\* PC values of its rows add up to the number of rows with PitchesThrown = 1.
C13_OneRowPerPitcher ==
  Derived =>
    /\ \A id \in PitcherIds :
         Cardinality({k \in DOMAIN p_data : p_data[k].Pitcher \in DisplayNamesOf(id)}) = 1
    /\ Len(p_data) = Cardinality(PitcherIds)
    /\ SumSeq(MapRows(p_data, LAMBDA g : g.PC))
         = CountRows(pdf, LAMBDA r : r.PitchesThrown = 1)

\* C14: a row whose description is in none of the fixed outcome lists, a null
\* description included, has IsBall = IsStrike = SwungOn = ContactMade = 0 and
\* PitchesThrown = IsSwStr = IsCalledStr = 0.
C14_UnlistedDescriptionNoFlags ==
  Derived =>
    \A i \in DOMAIN pdf :
      ~(\E d \in KnownDescriptions : Source(pdf[i]).description = Some(d)) =>
        /\ pdf[i].IsBall = 0 /\ pdf[i].IsStrike = 0
        /\ pdf[i].SwungOn = 0 /\ pdf[i].ContactMade = 0
        /\ pdf[i].PitchesThrown = 0 /\ pdf[i].IsSwStr = 0 /\ pdf[i].IsCalledStr = 0

\* a row without a description, which raises no flag
C14_Witness ==
  /\ Derived
  /\ \E i \in DOMAIN pdf :
       /\ Source(pdf[i]).description = None
       /\ pdf[i].PitchesThrown = 0
       /\ pdf[i].IsStrike = 0

\* the terminal conditions that hold of a row
TerminalConditions(r) ==
  {c \in {"strikeout", "walk", "in_play", "hit_by_pitch"} :
     \/ c = "strikeout" /\ r.strikes = Some(3)
     \/ c = "walk" /\ r.balls = Some(4)
     \/ c = "in_play" /\ r.isInPlay = Some(TRUE)
     \/ c = "hit_by_pitch" /\ r.description = Some("Hit By Pitch")}

\* C15 as claimed: on every row with PA_flag = 1 exactly one of the terminal
\* conditions holds, and a row on which none holds has PA_flag = 0.
C15_ExactlyOneTerminal ==
  Derived =>
    \A i \in DOMAIN pdf :
      /\ pdf[i].PA_flag = 1 => Cardinality(TerminalConditions(Source(pdf[i]))) = 1
      /\ TerminalConditions(Source(pdf[i])) = {} => pdf[i].PA_flag = 0

\* C15 as amended: PA_flag is 1 exactly on the rows on which at least one of the
\* terminal conditions holds (several may hold together), and 0 on every other row.
C15_SomeTerminal ==
  Derived =>
    \A i \in DOMAIN pdf :
      /\ pdf[i].PA_flag \in {0, 1}
      /\ pdf[i].PA_flag = 1 <=> TerminalConditions(Source(pdf[i])) # {}

\* a batter hit by the pitch on a count that is neither four balls nor three strikes
C15_Witness ==
  /\ Derived
  /\ \E i \in DOMAIN pdf :
       /\ TerminalConditions(Source(pdf[i])) = {"hit_by_pitch"}
       /\ pdf[i].PA_flag = 1

\* C16: on a bottom half-inning row the batting team is the home team and the
\* pitching team the away team, on a top half-inning row the other way round, for
\* the team names and for the affiliations; the two teams of record differ.
C16_TeamsOfRecord ==
  Derived =>
    \A i \in DOMAIN pdf :
      LET r == pdf[i]
          q == Source(r)
          aff(id) == MapDict(MapDict(id, affdict), affdict_abbrevs)
      IN  /\ q.inning_top_bot = "bottom" =>
                /\ r.BatterTeam = q.home_team /\ r.PitcherTeam = q.away_team
                /\ r.BatterTeam_aff = aff(q.home_team_id)
                /\ r.PitcherTeam_aff = aff(q.away_team_id)
          /\ q.inning_top_bot = "top" =>
                /\ r.BatterTeam = q.away_team /\ r.PitcherTeam = q.home_team
                /\ r.BatterTeam_aff = aff(q.away_team_id)
                /\ r.PitcherTeam_aff = aff(q.home_team_id)
          /\ r.BatterTeam # r.PitcherTeam

\* a table with a row of a top half and a row of a bottom half
C16_Witness ==
  /\ Derived
  /\ \E i, j \in DOMAIN pdf :
       /\ pdf[i].inning_top_bot = "top" /\ pdf[i].BatterTeam = "Boston Red Sox"
       /\ pdf[j].inning_top_bot = "bottom" /\ pdf[j].BatterTeam = "New York Yankees"

\* C17: InZone is 1 exactly when the zone code is below 10; InZone2 is 1 exactly
\* when plate_y lies between zone_bot * 100 and zone_top * 100 and plate_x between
\* 70 and 140; a null input gives 0; OutZone2 is the complement of InZone2.
C17_TwoZoneFlags ==
  Derived =>
    \A i \in DOMAIN pdf :
      LET r == pdf[i]
          q == Source(r)
          known == /\ q.plate_x # None /\ q.plate_y # None
                   /\ q.zone_top # None /\ q.zone_bot # None
      IN  /\ r.InZone = 1 <=> (q.zone # None /\ q.zone[1] < 10)
          /\ r.InZone2 = 1 <=> (/\ known
                                /\ q.zone_bot[1] <= q.plate_y[1] /\ q.plate_y[1] <= q.zone_top[1]
                                /\ 70 <= q.plate_x[1] /\ q.plate_x[1] <= 140)
          /\ r.InZone \in {0, 1} /\ r.InZone2 \in {0, 1}
          /\ r.OutZone2 = 1 - r.InZone2

\* a pitch inside the plate-coordinate zone whose zone code is 10: the flags differ
C17_Witness ==
  /\ Derived
  /\ \E i \in DOMAIN pdf :
       /\ pdf[i].zone = Some(10)
       /\ pdf[i].InZone = 0
       /\ pdf[i].InZone2 = 1

\* the boxscore lines of the in-scope games among the first n games of the day
RECURSIVE FetchedBoxes(_)
FetchedBoxes(n) ==
  IF n = 0 THEN <<>>
  ELSE FetchedBoxes(n - 1) \o (IF today_games[n] \in {"I", "F"} THEN Linebox(n) ELSE <<>>)

\* C18: a live cycle starts from empty accumulators, so the rows and boxscore lines
\* it holds are those of the games of this cycle's schedule that it has processed,
\* and the tables it shows are derived from these alone.
C18_CycleFromFreshState ==
  /\ (pc = "games" /\ game = 1) => (livedb = <<>> /\ all_pitboxes = <<>>)
  /\ pc \in {"games", "pbp", "display"} =>
       /\ \A i \in DOMAIN livedb :
            /\ livedb[i].game_pk \in 1..(game - 1)
            /\ livedb[i].game_status = today_games[livedb[i].game_pk]
       /\ all_pitboxes = FetchedBoxes(IF pc = "pbp" THEN game ELSE game - 1)
  /\ Derived =>
       /\ pdf = WithDP(savAddOns(livedb, lsaclass))
       /\ cplist = CurrentPitchers(savAddOns(livedb, lsaclass))
       /\ p_data = getPData(pdf, all_pitboxes, cplist)
       /\ pmix_data = getPMixData(pdf, cplist)

\* a cycle after the first one (the page placeholder exists) that has derived tables
C18_Witness ==
  /\ Derived
  /\ pitcher_detail_dataframe_container # None
  /\ pdf # <<>>
  /\ p_data # <<>>

\* C19: the QS of a pitching line is 1 exactly when the line has GS > 0, at least
\* 6 innings pitched and at most 3 earned runs, and 0 otherwise.
C19_QualityStart ==
  \A i \in DOMAIN pitching_logs :
    LET st == payload[1].stats.pitching[1]
    IN  /\ pitching_logs[i].QS \in {0, 1}
        /\ pitching_logs[i].QS = 1 <=>
             /\ st.gamesStarted[1] > 0
             /\ st.inningsPitched[1] \in {"6.0", "6.1", "9.0"}
             /\ st.earnedRuns[1] <= 3

\* a start of exactly six innings with three earned runs
C19_Witness ==
  /\ pc = "boxed"
  /\ \E i \in DOMAIN pitching_logs :
       /\ pitching_logs[i].GS = 1
       /\ pitching_logs[i].IP = 60
       /\ pitching_logs[i].ER = 3
       /\ pitching_logs[i].QS = 1

\* C20 as claimed: whenever main waits because no game is live, it later fetches
\* the schedule again.
C20_WaitRefetchesSchedule == (pc = "wait") ~> (pc = "schedule")

\* C21 as claimed: main waits only when no game of the schedule is in progress but
\* some game is still to come ('S' or 'P'); it handles a live cycle exactly when
\* some game is in progress; and with neither it stops.
C21_StopWhenAllComplete ==
  LET statuses == Range(today_games)
  IN  /\ pc = "wait" => ("I" \notin statuses /\ statuses \cap {"S", "P"} # {})
      /\ pc \in {"games", "pbp", "display"} => "I" \in statuses
      /\ pc = "stopped" => statuses \cap {"I", "S", "P"} = {}

\* C22 as claimed: a row flagged IsSwStr = 1 is also flagged SwungOn = 1 and
\* IsStrike = 1, and a row flagged ContactMade = 1 is also flagged SwungOn = 1.
C22_WhiffIsSwing ==
  Derived =>
    \A i \in DOMAIN pdf :
      /\ pdf[i].IsSwStr = 1 => (pdf[i].SwungOn = 1 /\ pdf[i].IsStrike = 1)
      /\ pdf[i].ContactMade = 1 => pdf[i].SwungOn = 1

\* a rate, in thousandths, that is null or lies between 0 and 1
NullOrUnitRate(v) == v = NaN \/ (v.k = "num" /\ 0 <= v.v /\ v.v <= 1000)

\* C23 as claimed: a row flagged IsStrike = 1 or IsBall = 1 is also flagged
\* PitchesThrown = 1; so in the per-pitcher aggregate Whiffs <= Strikes <= PC, and
\* SwStr%, Strike%, Ball% and Strike% + Ball% are null or between 0 and 1.
C23_StrikesAndBallsArePitches ==
  Derived =>
    /\ \A i \in DOMAIN pdf :
         (pdf[i].IsStrike = 1 \/ pdf[i].IsBall = 1) => pdf[i].PitchesThrown = 1
    /\ \A g \in Range(PData(pdf, cplist)) :
         /\ g.Whiffs <= g.Strikes /\ g.Strikes <= g.PC
         /\ NullOrUnitRate(g.SwStrPct)
         /\ NullOrUnitRate(g.StrikePct)
         /\ NullOrUnitRate(g.BallPct)
         /\ (g.StrikePct.k = "num" /\ g.BallPct.k = "num") => g.StrikePct.v + g.BallPct.v <= 1001

\* C25 as claimed: IsChase = 1 exactly when SwungOn = 1 and OutZone = 1, and
\* IsChase2 = 1 exactly when SwungOn = 1 and OutZone2 = 1; a swing at a pitch
\* without a zone code is no chase; on a swing exactly one of IsChase and
\* IsZoneSwing is 1, and exactly one of IsChase2 and IsZoneSwing2.
C25_ChaseIsSwingOutOfZone ==
  Derived =>
    \A i \in DOMAIN pdf :
      LET r == pdf[i]
      IN  /\ r.IsChase = 1 <=> (r.SwungOn = 1 /\ r.OutZone = 1)
          /\ r.IsChase2 = 1 <=> (r.SwungOn = 1 /\ r.OutZone2 = 1)
          /\ (r.SwungOn = 1 /\ r.zone = None) => r.IsChase = 0
          /\ r.SwungOn = 1 => (r.IsChase + r.IsZoneSwing = 1 /\ r.IsChase2 + r.IsZoneSwing2 = 1)

\* C24: the scoreboard row of a game still in progress (status 'I') never
\* shows inning 'F', whatever the two teams' innings-pitched totals are
C24_InProgressNeverF ==
  pc = "pbp" =>
    \A i \in DOMAIN scoreboard_df :
      today_games[i] = "I" => scoreboard_df[i].Inn # "F"

====
